---- MODULE Spec2Model ----
(***************************************************************************)
(* Model of olist/order.py (class Order) and olist/data.py (class Olist).  *)
(*                                                                         *)
(* A DataFrame is a sequence of rows; a row is a record whose fields are   *)
(* the columns.  Every cell is a sequence of length at most one: <<v>> is  *)
(* the value v and <<>> is a missing value (NaN / NaT / None).             *)
(* Timestamps are whole numbers of days, so dividing a timedelta by        *)
(* one_day_delta is the difference of the two numbers.                     *)
(***************************************************************************)
EXTENDS Integers, Sequences, FiniteSets, TLC

VARIABLES data, pc, call, geo, result

vars == <<data, pc, call, geo, result>>

----------------------------------------------------------------------------
(* Bounds of the model-checked inputs: the rows of orders, order_reviews,  *)
(* order_items (when orders and reviews vary too, and when only the items  *)
(* vary) and geolocation, the last day and the largest coordinate.         *)

MaxOrders == 2
MaxReviews == 2
MaxItems == 2
MaxOrderItems == 3
MaxGeo == 2
MaxTime == 2
MaxCoord == 1

----------------------------------------------------------------------------
(* Cells and generic DataFrame operations (pandas).                        *)

NaN == <<>>

Cell(v) == <<v>>

isna(c) == c = NaN

Abs(x) == IF x < 0 THEN -x ELSE x

RECURSIVE Concat(_)
Concat(ss) == IF ss = <<>> THEN <<>> ELSE Head(ss) \o Concat(Tail(ss))

RECURSIVE GCD(_, _)
GCD(a, b) == IF b = 0 THEN a ELSE GCD(b, a % b)

RECURSIVE SumSeq(_)
SumSeq(s) == IF s = <<>> THEN 0 ELSE Head(s) + SumSeq(Tail(s))

(* Identifiers and zip codes are ordered as pandas orders them when it     *)
(* sorts them: identifiers alphabetically, numbers by value.               *)
IdOrder == <<"c1", "c2", "c3", "c4", "o1", "o2", "o3", "o4", "o5",
             "p1", "p2", "r1", "r2", "r3", "r4", "s1", "s2", "s3">>

IdRank(v) == CHOOSE i \in 1..Len(IdOrder) : IdOrder[i] = v

(* The sort key of a cell of column col: order ids are identifiers, the    *)
(* zip codes and the counts are numbers.                                   *)
Rank(col, v) == IF col = "order_id" THEN IdRank(v) ELSE v

(* The distinct non-missing cells of a column, in ascending order          *)
(* (groupby drops missing keys and sorts the group keys).                  *)
GroupKeys(df, col) ==
    LET S == {df[i][col] : i \in {j \in 1..Len(df) : ~isna(df[j][col])}}
    IN  [i \in 1..Cardinality(S) |->
            CHOOSE k \in S :
                Cardinality({y \in S : Rank(col, y[1]) < Rank(col, k[1])}) = i - 1]

(* The rows of one group, in frame order.                                  *)
Group(df, col, k) == SelectSeq(df, LAMBDA row : row[col] = k)

(* DataFrame.sort_values(col) on a column without missing values.          *)
SortValues(df, col) ==
    LET n == Len(df)
        before(j, k) == \/ Rank(col, df[j][col][1]) < Rank(col, df[k][col][1])
                        \/ /\ df[j][col][1] = df[k][col][1]
                           /\ j < k
    IN  [i \in 1..n |->
            df[CHOOSE k \in 1..n :
                   Cardinality({j \in 1..n : before(j, k)}) = i - 1]]

(* DataFrame.dropna(): keeps the rows without a missing cell in any column *)
dropna(df) == SelectSeq(df, LAMBDA row : \A c \in DOMAIN row : ~isna(row[c]))

(* left.merge(right, on = col), how = 'inner': missing keys match each     *)
(* other, left order is kept.                                              *)
InnerMerge_cross(L, R, on) ==
    Concat([i \in 1..Len(L) |-> [j \in 1..Len(R) |-> L[i] @@ R[j]]])

InnerMerge(L, R, on) ==
    Concat([i \in 1..Len(L) |->
               LET M == SelectSeq(R, LAMBDA r : r[on] = L[i][on])
               IN  [j \in 1..Len(M) |-> L[i] @@ M[j]]])

(* left.merge(right, how = 'left', left_on = lon, right_on = ron): a left  *)
(* row without a match gets missing cells in the right columns rcols.      *)
LeftMerge(L, R, lon, ron, rcols) ==
    Concat([i \in 1..Len(L) |->
               LET M == SelectSeq(R, LAMBDA r : r[ron] = L[i][lon])
               IN  IF M = <<>>
                   THEN <<L[i] @@ [c \in rcols |-> NaN]>>
                   ELSE [j \in 1..Len(M) |-> L[i] @@ M[j]]])

(* left.merge(right, on = col, how = 'outer'): the inner and left-only     *)
(* rows, then the right-only rows, sorted by the key.                      *)
OuterMerge(L, R, on, lcols, rcols) ==
    LET left  == LeftMerge(L, R, on, on, rcols \ {on})
        only  == SelectSeq(R, LAMBDA r : \A i \in 1..Len(L) : L[i][on] # r[on])
        right == [j \in 1..Len(only) |->
                     only[j] @@ [c \in lcols \ {on} |-> NaN]]
    IN  SortValues(left \o right, on)

(* df[cols]                                                                *)
Project(df, cols) == [i \in 1..Len(df) |-> [c \in cols |-> df[i][c]]]

----------------------------------------------------------------------------
(* Olist.get_matching_table (data.py).                                     *)

get_matching_table(d) ==
    LET orders  == Project(d.orders, {"customer_id", "order_id"})
        items   == Project(d.order_items, {"order_id", "product_id", "seller_id"})
        reviews == Project(d.order_reviews, {"order_id", "review_id"})
        first   == OuterMerge(orders, reviews, "order_id",
                              {"customer_id", "order_id"},
                              {"order_id", "review_id"})
    IN  OuterMerge(first, items, "order_id",
                   {"customer_id", "order_id", "review_id"},
                   {"order_id", "product_id", "seller_id"})

----------------------------------------------------------------------------
(* Order.get_wait_time (order.py).                                         *)

(* The difference of two timestamps divided by one day; missing if either  *)
(* timestamp is missing.                                                   *)
DaysBetween(later, earlier) ==
    IF isna(later) \/ isna(earlier) THEN NaN ELSE Cell(later[1] - earlier[1])

filter_delivered_always(orders, is_delivered) ==
    SelectSeq(orders, LAMBDA o : o.order_status = Cell("delivered"))

filter_delivered(orders, is_delivered) ==
    IF is_delivered
    THEN SelectSeq(orders, LAMBDA o : o.order_status = Cell("delivered"))
    ELSE orders

wait_time_swapped(o) ==
    DaysBetween(o.order_purchase_timestamp, o.order_delivered_customer_date)

wait_time(o) ==
    DaysBetween(o.order_delivered_customer_date, o.order_purchase_timestamp)

delay_vs_expected(o) ==
    DaysBetween(o.order_estimated_delivery_date, o.order_delivered_customer_date)

expected_wait_time(o) ==
    DaysBetween(o.order_estimated_delivery_date, o.order_purchase_timestamp)

(* "delay < 0" is false for a missing delay, which therefore becomes 0.    *)
absolute_delay_always(delay) ==
    IF isna(delay) THEN Cell(0) ELSE Cell(Abs(delay[1]))

absolute_delay(delay) ==
    IF ~isna(delay) /\ delay[1] < 0 THEN Cell(Abs(delay[1])) ELSE Cell(0)

get_wait_time(d, is_delivered) ==
    LET orders == filter_delivered(d.orders, is_delivered)
    IN  [i \in 1..Len(orders) |->
            [order_id           |-> orders[i].order_id,
             wait_time          |-> wait_time(orders[i]),
             expected_wait_time |-> expected_wait_time(orders[i]),
             delay_vs_expected  |-> absolute_delay(delay_vs_expected(orders[i]))]]

----------------------------------------------------------------------------
(* Order.get_review_score (order.py).                                      *)

dim_five_star(score) == IF score = Cell(5) THEN Cell(1) ELSE Cell(0)

dim_one_star(score) == IF score = Cell(1) THEN Cell(1) ELSE Cell(0)

get_review_score(d) ==
    LET reviews == d.order_reviews
    IN  [i \in 1..Len(reviews) |->
            [order_id         |-> reviews[i].order_id,
             dim_is_five_star |-> dim_five_star(reviews[i].review_score),
             dim_is_one_star  |-> dim_one_star(reviews[i].review_score),
             review_score     |-> reviews[i].review_score]]

----------------------------------------------------------------------------
(* Order.get_number_products, get_number_sellers, get_price_and_freight.   *)

(* groupby(...).count(): the number of non-missing cells of the column.    *)
Count(g, col) == Len(SelectSeq(g, LAMBDA row : ~isna(row[col])))

(* groupby(...)[col].nunique(): the number of distinct non-missing cells.  *)
NUnique(g, col) ==
    Cardinality({g[i][col] : i \in {j \in 1..Len(g) : ~isna(g[j][col])}})

(* groupby(...)[col].sum(): the sum of the non-missing cells.              *)
Sum(g, col) ==
    LET present == SelectSeq(g, LAMBDA row : ~isna(row[col]))
    IN  SumSeq([i \in 1..Len(present) |-> present[i][col][1]])

get_number_products_nunique(d) ==
    LET keys == GroupKeys(d.order_items, "order_id")
        counted == [i \in 1..Len(keys) |->
                       [order_id |-> keys[i],
                        number_of_products |->
                            Cell(NUnique(Group(d.order_items, "order_id", keys[i]),
                                         "product_id"))]]
    IN  SortValues(counted, "number_of_products")

get_number_products(d) ==
    LET keys == GroupKeys(d.order_items, "order_id")
        counted == [i \in 1..Len(keys) |->
                       [order_id |-> keys[i],
                        number_of_products |->
                            Cell(Count(Group(d.order_items, "order_id", keys[i]),
                                       "order_item_id"))]]
    IN  SortValues(counted, "number_of_products")

get_number_sellers(d) ==
    LET keys == GroupKeys(d.order_items, "order_id")
        sellers == [i \in 1..Len(keys) |->
                       [order_id |-> keys[i],
                        number_of_sellers |->
                            Cell(NUnique(Group(d.order_items, "order_id", keys[i]),
                                         "seller_id"))]]
    IN  SortValues(sellers, "number_of_sellers")

get_price_and_freight(d) ==
    LET keys == GroupKeys(d.order_items, "order_id")
    IN  [i \in 1..Len(keys) |->
            LET g == Group(d.order_items, "order_id", keys[i])
            IN  [order_id      |-> keys[i],
                 price         |-> Cell(Sum(g, "price")),
                 freight_value |-> Cell(Sum(g, "freight_value"))]]

----------------------------------------------------------------------------
(* Order.get_distance_seller_customer (order.py).                          *)

(* olist.utils.haversine_distance: the great-circle distance between two   *)
(* points.  Coordinates are points of a small integer grid and the         *)
(* distance is the grid distance; it is 0 exactly for equal coordinates.   *)
haversine_distance(lon1, lat1, lon2, lat2) == Abs(lon1 - lon2) + Abs(lat1 - lat2)

(* A mean as a fraction <<numerator, denominator>> in lowest terms.        *)
Frac(n, d) == <<n \div GCD(n, d), d \div GCD(n, d)>>

(* Series.mean() of a non-empty group without missing values.              *)
Mean(s) == Frac(SumSeq(s), Len(s))

(* GroupBy.first(): per column, the first non-missing cell of the group.   *)
First(g, col) ==
    LET present == SelectSeq(g, LAMBDA row : ~isna(row[col]))
    IN  IF present = <<>> THEN NaN ELSE present[1][col]

(* geo.groupby('geolocation_zip_code_prefix', as_index = False).first()    *)
geo_first(geolocation) ==
    LET keys == GroupKeys(geolocation, "geolocation_zip_code_prefix")
    IN  [i \in 1..Len(keys) |->
            LET g == Group(geolocation, "geolocation_zip_code_prefix", keys[i])
            IN  [geolocation_zip_code_prefix |-> keys[i],
                 geolocation_lat |-> First(g, "geolocation_lat"),
                 geolocation_lng |-> First(g, "geolocation_lng")]]

GeoColumns ==
    {"geolocation_zip_code_prefix", "geolocation_lat", "geolocation_lng"}

sellers_geo(d) ==
    Project(LeftMerge(d.sellers, geo_first(d.geolocation),
                      "seller_zip_code_prefix", "geolocation_zip_code_prefix",
                      GeoColumns),
            {"seller_id", "seller_zip_code_prefix", "seller_city", "seller_state",
             "geolocation_lat", "geolocation_lng"})

customers_geo(d) ==
    Project(LeftMerge(d.customers, geo_first(d.geolocation),
                      "customer_zip_code_prefix", "geolocation_zip_code_prefix",
                      GeoColumns),
            {"customer_id", "customer_zip_code_prefix", "customer_city",
             "customer_state", "geolocation_lat", "geolocation_lng"})

(* The columns both frames have get the suffixes of the second merge.      *)
Suffixed(df, keep, suffix) ==
    [i \in 1..Len(df) |->
        [c \in keep |-> df[i][c]]
        @@ (IF suffix = "_seller"
            THEN [geolocation_lat_seller |-> df[i].geolocation_lat,
                  geolocation_lng_seller |-> df[i].geolocation_lng]
            ELSE [geolocation_lat_customer |-> df[i].geolocation_lat,
                  geolocation_lng_customer |-> df[i].geolocation_lng])]

(* matching_table.merge(sellers_geo).merge(customers_geo).dropna()         *)
matching_geo(d) ==
    LET s == Suffixed(sellers_geo(d),
                      {"seller_id", "seller_zip_code_prefix", "seller_city",
                       "seller_state"}, "_seller")
        c == Suffixed(customers_geo(d),
                      {"customer_id", "customer_zip_code_prefix", "customer_city",
                       "customer_state"}, "_customer")
    IN  dropna(InnerMerge(InnerMerge(get_matching_table(d), s, "seller_id"),
                          c, "customer_id"))

row_distance(row) ==
    haversine_distance(row.geolocation_lng_seller[1],
                       row.geolocation_lat_seller[1],
                       row.geolocation_lng_customer[1],
                       row.geolocation_lat_customer[1])

get_distance_seller_customer(d) ==
    LET m == matching_geo(d)
        keys == GroupKeys(m, "order_id")
    IN  [i \in 1..Len(keys) |->
            LET g == Group(m, "order_id", keys[i])
            IN  [order_id |-> keys[i],
                 distance_seller_customer |->
                     Cell(Mean([j \in 1..Len(g) |-> row_distance(g[j])]))]]

----------------------------------------------------------------------------
(* Order.get_training_data (order.py).                                     *)

training_set(d, is_delivered, with_distance_seller_customer) ==
    LET base ==
            InnerMerge(
                InnerMerge(
                    InnerMerge(
                        InnerMerge(get_wait_time(d, is_delivered),
                                   get_review_score(d), "order_id"),
                        get_number_products(d), "order_id"),
                    get_number_sellers(d), "order_id"),
                get_price_and_freight(d), "order_id")
    IN  IF with_distance_seller_customer
        THEN InnerMerge(base, get_distance_seller_customer(d), "order_id")
        ELSE base

get_training_data_keepna(d, is_delivered, with_distance_seller_customer) ==
    training_set(d, is_delivered, with_distance_seller_customer)

get_training_data(d, is_delivered, with_distance_seller_customer) ==
    dropna(training_set(d, is_delivered, with_distance_seller_customer))

----------------------------------------------------------------------------
(* The datasets: what Olist().get_data() loads from the csv files.         *)

OrderName    == <<"o1", "o2", "o3", "o4", "o5">>
CustomerName == <<"c1", "c2", "c3", "c4">>
ReviewName   == <<"r1", "r2", "r3", "r4">>

Statuses == {"delivered", "shipped"}
Days     == {NaN} \cup {Cell(t) : t \in 0..MaxTime}
Coords   == {NaN} \cup {Cell(x) : x \in 0..MaxCoord}

(* All sequences over S of length lo..hi.                                  *)
SeqsOf(S, lo, hi) == UNION {[1..n -> S] : n \in lo..hi}

(* The i-th order: purchased on day 1, belonging to the i-th customer.     *)
OrderRow(i, status, delivered, estimated) ==
    [order_id                      |-> Cell(OrderName[i]),
     customer_id                   |-> Cell(CustomerName[i]),
     order_status                  |-> Cell(status),
     order_purchase_timestamp      |-> Cell(1),
     order_delivered_customer_date |-> delivered,
     order_estimated_delivery_date |-> Cell(estimated)]

(* Orders tables with one row per order id, each row drawn from opts, a    *)
(* set of <<status, delivered, estimated>>.                                *)
OrdersTables(opts, lo, hi) ==
    {[i \in 1..Len(f) |-> OrderRow(i, f[i][1], f[i][2], f[i][3])] :
        f \in SeqsOf(opts, lo, hi)}

(* Reviews tables: the i-th review is of order f[i]; the first review      *)
(* gives five stars, the later ones one star.                              *)
ReviewsTables(orderIds, lo, hi) ==
    {[i \in 1..Len(f) |->
        [review_id    |-> Cell(ReviewName[i]),
         order_id     |-> Cell(f[i]),
         review_score |-> Cell(IF i = 1 THEN 5 ELSE 1)]] :
        f \in SeqsOf(orderIds, lo, hi)}

(* Items tables: f[i] = <<order, seller, product>>; order_item_id numbers  *)
(* the items of an order from 1.                                           *)
ItemsTables(opts, lo, hi) ==
    {[i \in 1..Len(f) |->
        [order_id      |-> Cell(f[i][1]),
         order_item_id |-> Cell(Cardinality({j \in 1..i : f[j][1] = f[i][1]})),
         product_id    |-> Cell(f[i][3]),
         seller_id     |-> Cell(f[i][2]),
         price         |-> Cell(10 * i),
         freight_value |-> Cell(5)]] :
        f \in SeqsOf(opts, lo, hi)}

GeoTables(zips, lats, lngs, lo, hi) ==
    {[i \in 1..Len(f) |->
        [geolocation_zip_code_prefix |-> Cell(f[i][1]),
         geolocation_lat             |-> f[i][2],
         geolocation_lng             |-> f[i][3]]] :
        f \in SeqsOf(zips \X lats \X lngs, lo, hi)}

(* Seller s1 is in zip 1 and s2 in zip 2; the i-th customer is in zip i.   *)
SellersTable ==
    <<[seller_id |-> Cell("s1"), seller_zip_code_prefix |-> Cell(1),
       seller_city |-> Cell("campinas"), seller_state |-> Cell("SP")],
      [seller_id |-> Cell("s2"), seller_zip_code_prefix |-> Cell(2),
       seller_city |-> Cell("mogi guacu"), seller_state |-> Cell("SP")]>>

CustomersTable ==
    [i \in 1..MaxOrders |->
        [customer_id |-> Cell(CustomerName[i]),
         customer_zip_code_prefix |-> Cell(i),
         customer_city |-> Cell("franca"), customer_state |-> Cell("SP")]]

(* Zip 1 has two coordinates, zip 2 has none.                              *)
GeoTable ==
    <<[geolocation_zip_code_prefix |-> Cell(1),
       geolocation_lat |-> Cell(0), geolocation_lng |-> Cell(0)],
      [geolocation_zip_code_prefix |-> Cell(1),
       geolocation_lat |-> Cell(1), geolocation_lng |-> Cell(1)]>>

Dataset(orders, reviews, items, geolocation) ==
    [orders        |-> orders,
     order_reviews |-> reviews,
     order_items   |-> items,
     sellers       |-> SellersTable,
     customers     |-> CustomersTable,
     geolocation   |-> geolocation]

Ready ==
    /\ pc = "ready"
    /\ call = [op |-> "none"]
    /\ geo = <<>>
    /\ result = <<>>

(* Orders, reviews and items vary; items and reviews may name an order     *)
(* that is not in orders.                                                  *)
Init ==
    /\ \E orders \in OrdersTables({<<"delivered", NaN, 1>>,
                                   <<"delivered", Cell(0), 1>>,
                                   <<"delivered", Cell(MaxTime), 1>>,
                                   <<"shipped", Cell(MaxTime), 1>>},
                                  1, MaxOrders),
          reviews \in ReviewsTables({"o1", "o2"}, 0, MaxReviews),
          items \in ItemsTables({<<"o1", "s1", "p1">>, <<"o2", "s1", "p1">>},
                                0, MaxItems) :
        data = Dataset(orders, reviews, items, GeoTable)
    /\ Ready

(* The orders vary in status, delivery date and estimated date.            *)
InitWait ==
    /\ \E orders \in OrdersTables(Statuses \X Days \X {1, MaxTime},
                                  1, MaxOrders) :
        data = Dataset(orders,
                       CHOOSE r \in ReviewsTables({"o1"}, 1, 1) : TRUE,
                       CHOOSE t \in ItemsTables({<<"o1", "s1", "p1">>}, 1, 1) : TRUE,
                       GeoTable)
    /\ Ready

(* The items vary in order, seller and product.                            *)
InitItems ==
    /\ \E items \in ItemsTables({"o1", "o2"} \X {"s1", "s2"} \X {"p1", "p2"},
                                0, MaxOrderItems) :
        data = Dataset(CHOOSE o \in OrdersTables({<<"delivered", Cell(MaxTime), 1>>},
                                                 MaxOrders, MaxOrders) : TRUE,
                       CHOOSE r \in ReviewsTables({"o1"}, 1, 1) : TRUE,
                       items, GeoTable)
    /\ Ready

(* One delivered order; its reviews, the sellers of its items and the      *)
(* geolocation rows vary.                                                  *)
InitGeo ==
    /\ \E reviews \in ReviewsTables({"o1"}, 0, MaxReviews),
          items \in ItemsTables({"o1"} \X {"s1", "s2"} \X {"p1"}, 0, MaxOrderItems),
          geolocation \in GeoTables({1, 2}, Coords, {NaN, Cell(0)}, 1, MaxGeo) :
        data = Dataset(CHOOSE o \in OrdersTables({<<"delivered", Cell(MaxTime), 1>>},
                                                 1, 1) : TRUE,
                       reviews, items, geolocation)
    /\ Ready

----------------------------------------------------------------------------
(* One action per public method: the call runs to its return.              *)

Return(c, g, r) ==
    /\ pc = "ready"
    /\ pc' = "returned"
    /\ call' = c
    /\ geo' = g
    /\ result' = r
    /\ UNCHANGED data

GetMatchingTable ==
    Return([op |-> "get_matching_table"], <<>>, get_matching_table(data))

GetWaitTime ==
    \E is_delivered \in BOOLEAN :
        Return([op |-> "get_wait_time", is_delivered |-> is_delivered],
               <<>>, get_wait_time(data, is_delivered))

GetReviewScore ==
    Return([op |-> "get_review_score"], <<>>, get_review_score(data))

GetNumberProducts ==
    Return([op |-> "get_number_products"], <<>>, get_number_products(data))

GetNumberSellers ==
    Return([op |-> "get_number_sellers"], <<>>, get_number_sellers(data))

GetPriceAndFreight ==
    Return([op |-> "get_price_and_freight"], <<>>, get_price_and_freight(data))

GetDistanceSellerCustomer ==
    Return([op |-> "get_distance_seller_customer"],
           geo_first(data.geolocation), get_distance_seller_customer(data))

GetTrainingData ==
    \E is_delivered \in BOOLEAN, with_distance_seller_customer \in BOOLEAN :
        Return([op |-> "get_training_data", is_delivered |-> is_delivered,
                with_distance_seller_customer |-> with_distance_seller_customer],
               IF with_distance_seller_customer
               THEN geo_first(data.geolocation) ELSE <<>>,
               get_training_data(data, is_delivered,
                                 with_distance_seller_customer))

Next ==
    \/ GetMatchingTable
    \/ GetWaitTime
    \/ GetReviewScore
    \/ GetNumberProducts
    \/ GetNumberSellers
    \/ GetPriceAndFreight
    \/ GetDistanceSellerCustomer
    \/ GetTrainingData

Spec == Init /\ [][Next]_vars

SpecWait == InitWait /\ [][Next]_vars

SpecItems == InitItems /\ [][Next]_vars

SpecGeo == InitGeo /\ [][Next]_vars

----------------------------------------------------------------------------
(* Properties.                                                             *)

Returned(op) == pc = "returned" /\ call.op = op

Rows(df) == {df[i] : i \in 1..Len(df)}

(* The order ids of a frame, as a set of values.                           *)
OrderIds(df) == {df[i].order_id[1] : i \in 1..Len(df)}

(* C1: no row returned by get_training_data has a missing value in any     *)
(* column, whatever the dataset and the two arguments.                     *)
C1_NoMissingValue ==
    Returned("get_training_data") =>
        \A i \in 1..Len(result) : \A c \in DOMAIN result[i] : ~isna(result[i][c])

(* A call whose merged frame had a row with a missing value next to a      *)
(* complete row.                                                           *)
C1_Witness ==
    /\ Returned("get_training_data")
    /\ result # <<>>
    /\ Len(result) < Len(training_set(data, call.is_delivered,
                                      call.with_distance_seller_customer))

(* C2: no order_id occurs in more than one row of the table returned by    *)
(* get_training_data.                                                      *)
C2_OneRowPerOrder ==
    Returned("get_training_data") =>
        \A i, j \in 1..Len(result) :
            result[i].order_id = result[j].order_id => i = j

(* No order passes the status filter and has both a review and an item.    *)
JoinKeysDisjoint(d, is_delivered) ==
    OrderIds(filter_delivered(d.orders, is_delivered))
        \cap OrderIds(d.order_reviews) \cap OrderIds(d.order_items) = {}

(* C3 as stated: get_training_data never returns, as a normal result, the  *)
(* empty table of inner joins that collapsed to zero rows.                 *)
C3_EmptyJoinNeverReturned ==
    ~ /\ Returned("get_training_data")
      /\ training_set(data, call.is_delivered,
                      call.with_distance_seller_customer) = <<>>
      /\ result = <<>>

(* C3 amended: when no order_id is common to the joined frames, the call   *)
(* returns normally and its result is the table with zero rows.            *)
C3_EmptyJoinReturnsEmptyTable ==
    (call.op = "get_training_data" /\ JoinKeysDisjoint(data, call.is_delivered)) =>
        (pc = "returned" /\ result = <<>>)

(* Orders, reviews and items are all present, yet share no order_id.       *)
C3_Witness ==
    /\ Returned("get_training_data")
    /\ JoinKeysDisjoint(data, call.is_delivered)
    /\ filter_delivered(data.orders, call.is_delivered) # <<>>
    /\ data.order_reviews # <<>>
    /\ data.order_items # <<>>
    /\ result = <<>>

(* The row of orders that a row of a returned frame is about.              *)
OrderOf(row) == CHOOSE o \in Rows(data.orders) : o.order_id = row.order_id

(* C4: in every row of get_wait_time, with d = estimated - delivered,      *)
(* delay_vs_expected is -d when d < 0 and 0 when d >= 0, and it is never   *)
(* negative (nor missing).                                                 *)
C4_DelayClamp ==
    Returned("get_wait_time") =>
        \A i \in 1..Len(result) :
            LET o == OrderOf(result[i])
                delay == result[i].delay_vs_expected
            IN  /\ ~isna(delay)
                /\ delay[1] >= 0
                /\ ~isna(o.order_delivered_customer_date) =>
                       LET d == o.order_estimated_delivery_date[1]
                                    - o.order_delivered_customer_date[1]
                       IN  delay[1] = IF d < 0 THEN -d ELSE 0

(* One frame with a late order and an early order.                         *)
C4_Witness ==
    /\ Returned("get_wait_time")
    /\ \E i, j \in 1..Len(result) :
          /\ result[i].delay_vs_expected[1] > 0
          /\ ~isna(OrderOf(result[j]).order_delivered_customer_date)
          /\ OrderOf(result[j]).order_estimated_delivery_date[1]
                 > OrderOf(result[j]).order_delivered_customer_date[1]
          /\ result[j].delay_vs_expected = Cell(0)

(* C5: get_wait_time returns exactly one row for each delivered order and  *)
(* none for another order when is_delivered, and exactly one row for each  *)
(* order otherwise.                                                        *)
C5_RowsPerOrder ==
    Returned("get_wait_time") =>
        \A k \in 1..Len(data.orders) :
            LET o == data.orders[k]
                n == Cardinality({i \in 1..Len(result) :
                                     result[i].order_id = o.order_id})
            IN  IF call.is_delivered /\ o.order_status # Cell("delivered")
                THEN n = 0
                ELSE n = 1

(* All orders requested, one of them neither delivered nor dated.          *)
C5_Witness ==
    /\ Returned("get_wait_time")
    /\ ~call.is_delivered
    /\ Len(result) > 1
    /\ \E o \in Rows(data.orders) :
          /\ o.order_status # Cell("delivered")
          /\ isna(o.order_delivered_customer_date)
    /\ \E o \in Rows(data.orders) : o.order_status = Cell("delivered")

(* C6 as stated: every row of get_training_data(is_delivered = True) has   *)
(* wait_time >= 0.                                                         *)
C6_WaitTimeNonNegative ==
    (Returned("get_training_data") /\ call.is_delivered) =>
        \A i \in 1..Len(result) : result[i].wait_time[1] >= 0

(* C6 amended: every such row is of a delivered order with a delivery      *)
(* date, its wait_time is that date minus the purchase timestamp, and so   *)
(* is >= 0 exactly when the delivery is not earlier than the purchase.     *)
C6_WaitTimeIsElapsedDays ==
    (Returned("get_training_data") /\ call.is_delivered) =>
        \A i \in 1..Len(result) :
            LET o == OrderOf(result[i])
            IN  /\ o.order_status = Cell("delivered")
                /\ ~isna(o.order_delivered_customer_date)
                /\ result[i].wait_time =
                       Cell(o.order_delivered_customer_date[1]
                                - o.order_purchase_timestamp[1])
                /\ result[i].wait_time[1] >= 0 <=>
                       o.order_delivered_customer_date[1]
                           >= o.order_purchase_timestamp[1]

(* A returned row of an order delivered before it was purchased.           *)
C6_Witness ==
    /\ Returned("get_training_data")
    /\ call.is_delivered
    /\ \E i \in 1..Len(result) : result[i].wait_time[1] < 0

(* C7: every order of order_items has at most as many distinct sellers     *)
(* (get_number_sellers) as item rows (get_number_products), also in each   *)
(* row of get_training_data.                                               *)
C7_SellersAtMostProducts ==
    /\ Returned("get_number_sellers") =>
           /\ OrderIds(result) = OrderIds(data.order_items)
           /\ \A i \in 1..Len(result) :
                  \E p \in Rows(get_number_products(data)) :
                      /\ p.order_id = result[i].order_id
                      /\ result[i].number_of_sellers[1] <= p.number_of_products[1]
    /\ Returned("get_training_data") =>
           \A i \in 1..Len(result) :
               result[i].number_of_sellers[1] <= result[i].number_of_products[1]

(* An order of three items from two sellers.                               *)
C7_Witness ==
    /\ Returned("get_number_sellers")
    /\ \E i \in 1..Len(result) :
          /\ result[i].number_of_sellers[1] > 1
          /\ Len(Group(data.order_items, "order_id", result[i].order_id))
                 > result[i].number_of_sellers[1]

----------------------------------------------------------------------------
(* Properties of get_distance_seller_customer.                             *)

(* C8: the deduplicated geolocation has exactly one row for every zip code *)
(* prefix, and both its latitude and its longitude are those of the first  *)
(* geolocation row with that prefix.                                       *)
C8_FirstRowCoordinate ==
    Returned("get_distance_seller_customer") =>
        /\ \A z \in {r.geolocation_zip_code_prefix : r \in Rows(data.geolocation)} :
               Cardinality({i \in 1..Len(geo) :
                               geo[i].geolocation_zip_code_prefix = z}) = 1
        /\ \A i \in 1..Len(geo) :
               LET same == {j \in 1..Len(data.geolocation) :
                               data.geolocation[j].geolocation_zip_code_prefix
                                   = geo[i].geolocation_zip_code_prefix}
                   first == data.geolocation[CHOOSE j \in same :
                                                 \A k \in same : j <= k]
               IN  /\ geo[i].geolocation_lat = first.geolocation_lat
                   /\ geo[i].geolocation_lng = first.geolocation_lng

HasCoordinates(row) ==
    ~isna(row.geolocation_lat) /\ ~isna(row.geolocation_lng)

(* C9: an order whose customer has coordinates and which has an item whose *)
(* seller has coordinates has a row in the returned distance table.        *)
C9_CoordinatesDecideRows ==
    Returned("get_distance_seller_customer") =>
        \A o \in Rows(data.orders) :
            ( /\ \E c \in Rows(customers_geo(data)) :
                    c.customer_id = o.customer_id /\ HasCoordinates(c)
              /\ \E it \in Rows(data.order_items) :
                    /\ it.order_id = o.order_id
                    /\ \E sl \in Rows(sellers_geo(data)) :
                          sl.seller_id = it.seller_id /\ HasCoordinates(sl) )
            => o.order_id[1] \in OrderIds(result)

(* C10: the distance of an order is the mean of the distance over its      *)
(* distinct (seller, customer) pairs, each pair counted once.              *)
C10_MeanOverPairs ==
    Returned("get_distance_seller_customer") =>
        \A i \in 1..Len(result) :
            LET g == Group(matching_geo(data), "order_id", result[i].order_id)
                pair(j) == <<g[j].seller_id, g[j].customer_id>>
                firsts == {j \in 1..Len(g) : \A k \in 1..(j - 1) : pair(k) # pair(j)}
                total == SumSeq([j \in 1..Len(g) |->
                                    IF j \in firsts THEN row_distance(g[j]) ELSE 0])
            IN  result[i].distance_seller_customer
                    = Cell(Frac(total, Cardinality(firsts)))

====
